---- MODULE Spec2Model ----
(***************************************************************************)
(* Multi-step form wizards of static/add_student.js (student wizard and    *)
(* the older top-level "legacy" wizard) and static/flag_student.js         *)
(* (teacher wizard).  Tabs, step indicators and the two navigation         *)
(* buttons are the DOM state; nextPrev is the only handler.                *)
(***************************************************************************)
EXTENDS Integers, Sequences, FiniteSets, TLC

\* ---------------------------------------------------------------- bounds
MaxSteps == 3
MaxSubmits == 2

\* ------------------------------------------------------------- documents
Variants == {"student", "legacy", "teacher"}

\* kinds of form control: <input type=text>, <input type=radio>, <select>
Kinds == {"text", "radio", "select"}

\* values a control can hold; " " is a whitespace-only entry
ValuesOf(kind) ==
  IF kind = "text" THEN {"", " ", "a"}
  ELSE IF kind = "select" THEN {"", "a"}
  ELSE {"on"}

\* String.prototype.trim on the values above
trim(v) == IF v = " " THEN "" ELSE v

Field(kind, required, name) ==
  [kind |-> kind, required |-> required, name |-> name,
   value |-> IF kind = "radio" THEN "on" ELSE "",
   checked |-> FALSE, invalid |-> FALSE]

\* the field lists a tab of the page can have; k names the tab's radio group
Templates(k) ==
  << << Field("text", TRUE, <<"t", k>>), Field("text", FALSE, <<"o", k>>) >>,
     << Field("radio", TRUE, <<"g", k>>), Field("radio", TRUE, <<"g", k>>) >>,
     << Field("select", TRUE, <<"s", k>>) >>,
     << Field("text", TRUE, <<"t", k>>) >> >>

NumTemplates == Len(Templates(0))

\* the page with n tabs whose first tab uses template number off
Page(n, off) ==
  [k \in 0..(n - 1) |-> Templates(k)[((k + off) % NumTemplates) + 1]]

VARIABLES variant, tabs, display, currentTab, prevBtn, nextBtn, steps,
          submitCount, last

\* the subject dropdowns of static/subject_validation.js
VARIABLES subjPresent, subjValue, subjDisabled, subjLast

\* the date-of-birth check of static/date_validation.js
VARIABLES dobToday, dobZone, dobValue, dobYear, dobLast

\* the attendance grid of static/add_student.js
VARIABLES attStatus, attActive, attCounts, attLoad, attTimer, attSave,
          attToast, attLast

wizVars == << variant, tabs, display, currentTab, prevBtn, nextBtn, steps,
              submitCount, last >>

subjVars == << subjPresent, subjValue, subjDisabled, subjLast >>

dobVars == << dobToday, dobZone, dobValue, dobYear, dobLast >>

attVars == << attStatus, attActive, attCounts, attLoad, attTimer, attSave,
              attToast, attLast >>

vars == << wizVars, subjVars, dobVars, attVars >>

\* pages without the wizard, the dropdowns, the date field or the grid
NoSubjects ==
  /\ subjPresent = {} /\ subjValue = << >> /\ subjDisabled = << >>
  /\ subjLast = << >>

NoDob ==
  /\ dobToday = << >> /\ dobZone = "" /\ dobValue = << >> /\ dobYear = ""
  /\ dobLast = << >>

NoAttendance ==
  /\ attStatus = << >> /\ attActive = << >> /\ attCounts = << >>
  /\ attLoad = {} /\ attTimer = FALSE /\ attSave = << >> /\ attToast = ""
  /\ attLast = << >>

NoWizard ==
  /\ variant = "" /\ tabs = << >> /\ display = << >> /\ currentTab = 0
  /\ prevBtn = "" /\ nextBtn = "" /\ steps = << >> /\ submitCount = 0
  /\ last = << >>

stepCount == Cardinality(DOMAIN tabs)

InRange(n, len) == n >= 0 /\ n < len

\* ------------------------------------------------------ fixStepIndicator
\* className.replace(' active', '') removes one occurrence; classList.remove
\* removes the class altogether.  active counts the occurrences.
\* a variant that rebuilds the entry's classes instead of editing them
removeActiveReset(v, s) == [active |-> 0, finish |-> FALSE]

\* a variant that leaves the active class in place
removeActiveSkip(v, s) == s

removeActive(v, s) ==
  IF v = "teacher" THEN [s EXCEPT !.active = 0]
  ELSE [s EXCEPT !.active = IF @ > 0 THEN @ - 1 ELSE 0]

addActive(v, s) ==
  IF v = "teacher" THEN [s EXCEPT !.active = 1]
  ELSE [s EXCEPT !.active = @ + 1]

\* a variant without the loop that clears the active class
fixStepIndicatorNoClear(v, n, st) ==
  IF n \in DOMAIN st
  THEN [threw |-> FALSE, steps |-> [st EXCEPT ![n] = addActive(v, st[n])]]
  ELSE [threw |-> (v = "legacy"), steps |-> st]

fixStepIndicator(v, n, st) ==
  LET cleared == [k \in DOMAIN st |-> removeActive(v, st[k])]
  IN IF n \in DOMAIN st
     THEN [threw |-> FALSE,
           steps |-> [cleared EXCEPT ![n] = addActive(v, cleared[n])]]
     ELSE [threw |-> (v = "legacy"), steps |-> cleared]

\* --------------------------------------------------------------- showTab
\* a variant that never hides the Previous button
prevBtnDisplayAlways(n) == "inline"

prevBtnDisplay(n) == IF n = 0 THEN "none" ELSE "inline"

\* a variant that compares with the number of tabs
nextBtnLabelPast(n, len) == IF n = len THEN "Submit" ELSE "Next"

nextBtnLabel(n, len) == IF n = len - 1 THEN "Submit" ELSE "Next"

\* the loop "Hide all tabs" exists in the student and teacher wizards only
hideAll(v, disp) ==
  IF v = "legacy" THEN disp ELSE [k \in DOMAIN disp |-> "none"]

showTab(v, n, disp, pb, nb, st) ==
  LET len == Cardinality(DOMAIN disp)
      hidden == hideAll(v, disp)
      ind == fixStepIndicator(v, n, st)
  IN IF v /= "legacy" /\ len = 0
     THEN [threw |-> FALSE, display |-> disp, prevBtn |-> pb,
           nextBtn |-> nb, steps |-> st, shown |-> {}]
     ELSE IF ~InRange(n, len)
     THEN [threw |-> TRUE, display |-> hidden, prevBtn |-> pb,
           nextBtn |-> nb, steps |-> st, shown |-> {}]
     ELSE [threw |-> ind.threw,
           display |-> [hidden EXCEPT ![n] = "block"],
           prevBtn |-> prevBtnDisplay(n),
           nextBtn |-> nextBtnLabel(n, len),
           steps |-> ind.steps, shown |-> {n}]

\* ---------------------------------------------------------- validateForm
\* a variant whose selector misses the input elements
isScannedNoInput(v, f) == f.kind = "select"

\* the controls the validation loop visits: every input, select and
\* textarea of the tab, or (legacy) its input elements only
isScanned(v, f) == v /= "legacy" \/ f.kind \in {"text", "radio"}

\* "clear previous invalid state" at the head of the loop body
clearsInvalid(v) == v /= "legacy"

\* document.querySelectorAll('input[name=...]') over the whole page
namedInputs(doc, name) ==
  {p \in UNION {{<<k, i>> : i \in 1..Len(doc[k])} : k \in DOMAIN doc} :
     /\ doc[p[1]][p[2]].kind \in {"text", "radio"}
     /\ doc[p[1]][p[2]].name = name}

anyChecked(doc, name) ==
  \E p \in namedInputs(doc, name) : doc[p[1]][p[2]].checked

\* a variant that ignores the required attribute
isMissingAnyEmpty(v, doc, f) == trim(f.value) = ""

\* the condition under which the loop body marks the control invalid
isMissing(v, doc, f) ==
  IF v = "legacy" THEN f.value = ""
  ELSE IF v = "teacher" THEN f.required /\ f.value = ""
  ELSE /\ f.required
       /\ IF f.kind = "radio" THEN ~anyChecked(doc, f.name)
          ELSE trim(f.value) = ""

\* the controls that receive the invalid class for a missing control at p
markTargets(v, doc, p) ==
  LET f == doc[p[1]][p[2]]
  IN IF v = "student" /\ f.kind = "radio" THEN namedInputs(doc, f.name)
     ELSE {p}

setInvalid(doc, targets, b) ==
  [k \in DOMAIN doc |->
     [i \in 1..Len(doc[k]) |->
        IF <<k, i>> \in targets THEN [doc[k][i] EXCEPT !.invalid = b]
        ELSE doc[k][i]]]

\* one iteration of the loop over the controls of tab ct
validateField(v, doc, ct, i) ==
  LET p == <<ct, i>>
      cleared == IF clearsInvalid(v) THEN setInvalid(doc, {p}, FALSE) ELSE doc
      f == cleared[ct][i]
  IN IF ~isScanned(v, f) THEN [tabs |-> doc, ok |-> TRUE]
     ELSE IF isMissing(v, cleared, f)
     THEN [tabs |-> setInvalid(cleared, markTargets(v, cleared, p), TRUE),
           ok |-> FALSE]
     ELSE [tabs |-> cleared, ok |-> TRUE]

RECURSIVE validateFrom(_, _, _, _, _)
validateFrom(v, doc, ct, i, valid) ==
  IF i > Len(doc[ct]) THEN [tabs |-> doc, valid |-> valid]
  ELSE LET r == validateField(v, doc, ct, i)
       IN validateFrom(v, r.tabs, ct, i + 1, valid /\ r.ok)

\* "if valid, mark the step as finished": absent from the student wizard
marksFinish(v) == v /= "student"

validateForm(v, doc, st, ct) ==
  IF ct \notin DOMAIN doc
  THEN [threw |-> (v = "legacy"), valid |-> TRUE, tabs |-> doc, steps |-> st]
  ELSE LET r == validateFrom(v, doc, ct, 1, TRUE)
       IN [threw |-> FALSE, valid |-> r.valid, tabs |-> r.tabs,
           steps |-> IF r.valid /\ marksFinish(v) /\ ct \in DOMAIN st
                     THEN [st EXCEPT ![ct].finish = TRUE]
                     ELSE st]

\* -------------------------------------------------------------- nextPrev
\* a variant that validates on every move
runsValidateAlways(n) == TRUE

\* n === 1 && !validateForm(): validateForm runs for forward moves only
runsValidate(n) == n = 1

\* a variant without the early return
blockedNever(n, valid) == FALSE

\* ... and a forward move whose validation failed returns false at once
blocked(n, valid) == n = 1 /\ ~valid

\* a variant that leaves the current tab displayed
hideCurrentSkip(v, disp, ct) == [threw |-> FALSE, display |-> disp]

\* "hide current tab"; the legacy wizard dereferences the tab unguarded
hideCurrent(v, disp, ct) ==
  IF ct \in DOMAIN disp
  THEN [threw |-> FALSE, display |-> [disp EXCEPT ![ct] = "none"]]
  ELSE [threw |-> (v = "legacy"), display |-> disp]

\* a variant with the end test off by one
reachedEndPast(ct, len) == ct > len

\* "if we've reached the end, submit the form"
reachedEnd(ct, len) == ct >= len

Call(op, validated, valid, ret, shown, submitted, threw) ==
  [op |-> op, validated |-> validated, valid |-> valid, ret |-> ret,
   shown |-> shown, submitted |-> submitted, threw |-> threw]

nextPrev(n) ==
  LET op == IF n = 1 THEN "next" ELSE "prev"
      ran == runsValidate(n)
      val == IF ran THEN validateForm(variant, tabs, steps, currentTab)
             ELSE [threw |-> FALSE, valid |-> TRUE, tabs |-> tabs,
                   steps |-> steps]
      hid == hideCurrent(variant, display, currentTab)
      ct == currentTab + n
      sh == showTab(variant, ct, hid.display, prevBtn, nextBtn, val.steps)
  IN /\ submitCount < MaxSubmits
     /\ UNCHANGED << variant, subjVars, dobVars, attVars >>
     /\ IF val.threw
        THEN /\ last' = Call(op, ran, FALSE, "throw", {}, FALSE, TRUE)
             /\ UNCHANGED << tabs, display, currentTab, prevBtn, nextBtn,
                             steps, submitCount >>
        ELSE IF blocked(n, val.valid)
        THEN /\ tabs' = val.tabs
             /\ steps' = val.steps
             /\ last' = Call(op, ran, val.valid, "false", {}, FALSE, FALSE)
             /\ UNCHANGED << display, currentTab, prevBtn, nextBtn,
                             submitCount >>
        ELSE IF hid.threw
        THEN /\ tabs' = val.tabs
             /\ steps' = val.steps
             /\ last' = Call(op, ran, val.valid, "throw", {}, FALSE, TRUE)
             /\ UNCHANGED << display, currentTab, prevBtn, nextBtn,
                             submitCount >>
        ELSE IF reachedEnd(ct, stepCount)
        THEN /\ tabs' = val.tabs
             /\ steps' = val.steps
             /\ display' = hid.display
             /\ currentTab' = ct
             /\ submitCount' = submitCount + 1
             /\ last' = Call(op, ran, val.valid, "false", {}, TRUE, FALSE)
             /\ UNCHANGED << prevBtn, nextBtn >>
        ELSE /\ tabs' = val.tabs
             /\ display' = sh.display
             /\ currentTab' = ct
             /\ prevBtn' = sh.prevBtn
             /\ nextBtn' = sh.nextBtn
             /\ steps' = sh.steps
             /\ last' = Call(op, ran, val.valid,
                             IF sh.threw THEN "throw" ELSE "undefined",
                             sh.shown, FALSE, sh.threw)
             /\ UNCHANGED submitCount

\* the Next / Submit button: onclick="nextPrev(1)"
Forward == nextPrev(1)

\* the Previous button, clickable only while it is displayed
Backward == prevBtn = "inline" /\ nextPrev(-1)

\* ------------------------------------------------------------ user input
Idle == Call("edit", FALSE, FALSE, "undefined", {}, FALSE, FALSE)

\* the user types into, or picks an option of, a control of the shown tab
SetValue ==
  \E k \in DOMAIN tabs : \E i \in 1..Len(tabs[k]) :
  \E val \in ValuesOf(tabs[k][i].kind) :
    /\ submitCount < MaxSubmits
    /\ display[k] = "block"
    /\ tabs[k][i].kind /= "radio"
    /\ val /= tabs[k][i].value
    /\ tabs' = [tabs EXCEPT ![k][i].value = val]
    /\ last' = Idle
    /\ UNCHANGED << variant, display, currentTab, prevBtn, nextBtn, steps,
                    submitCount, subjVars, dobVars, attVars >>

\* the user checks a radio button: the others of its group are unchecked
CheckRadio ==
  \E k \in DOMAIN tabs : \E i \in 1..Len(tabs[k]) :
    /\ submitCount < MaxSubmits
    /\ display[k] = "block"
    /\ tabs[k][i].kind = "radio"
    /\ ~tabs[k][i].checked
    /\ tabs' = [a \in DOMAIN tabs |->
                 [j \in 1..Len(tabs[a]) |->
                    IF tabs[a][j].kind = "radio"
                       /\ tabs[a][j].name = tabs[k][i].name
                    THEN [tabs[a][j] EXCEPT !.checked = (a = k /\ j = i)]
                    ELSE tabs[a][j]]]
    /\ last' = Idle
    /\ UNCHANGED << variant, display, currentTab, prevBtn, nextBtn, steps,
                    submitCount, subjVars, dobVars, attVars >>

\* --------------------------------------------------------- specification
\* var currentTab = 0; showTab(currentTab);
Init ==
  \E v \in Variants : \E n \in 1..MaxSteps : \E off \in 0..(NumTemplates - 1) :
    LET doc == Page(n, off)
        sh == showTab(v, 0, [k \in DOMAIN doc |-> ""], "", "",
                      [k \in DOMAIN doc |-> [active |-> 0, finish |-> FALSE]])
    IN /\ variant = v
       /\ tabs = doc
       /\ currentTab = 0
       /\ display = sh.display
       /\ prevBtn = sh.prevBtn
       /\ nextBtn = sh.nextBtn
       /\ steps = sh.steps
       /\ submitCount = 0
       /\ last = Call("init", FALSE, FALSE, "undefined", sh.shown, FALSE,
                      sh.threw)
       /\ NoSubjects /\ NoDob /\ NoAttendance

Next == Forward \/ Backward \/ SetValue \/ CheckRadio

Spec == Init /\ [][Next]_vars

\* ------------------------------------------------------------ vocabulary
Visible == {k \in DOMAIN display : display[k] = "block"}

OnStep == InRange(currentTab, stepCount)

Filled(f) == f.value /= "" /\ f.value /= " "

GroupChecked(k, name) ==
  \E j \in 1..Len(tabs[k]) :
    tabs[k][j].kind = "radio" /\ tabs[k][j].name = name /\ tabs[k][j].checked

\* every required control of tab k holds an entry (a radio group: a choice)
AllRequiredFilled(k) ==
  \A i \in 1..Len(tabs[k]) :
    tabs[k][i].required =>
      IF tabs[k][i].kind = "radio" THEN GroupChecked(k, tabs[k][i].name)
      ELSE Filled(tabs[k][i])

\* the required controls of tab k are the members of one radio group
OnlyRadioRequired(k) ==
  /\ \E i \in 1..Len(tabs[k]) : tabs[k][i].required
  /\ \A i \in 1..Len(tabs[k]) :
       tabs[k][i].required =>
         /\ tabs[k][i].kind = "radio"
         /\ \A j \in 1..Len(tabs[k]) :
              tabs[k][j].required => tabs[k][j].name = tabs[k][i].name

NoneInvalidAfter(k) == \A j \in 1..Len(tabs[k]) : ~tabs'[k][j].invalid

\* ---------------------------------------------------------------- claims
\* C1: a forward move whose validation fails returns false, keeps
\* currentTab and the displayed tabs as they were, and submits nothing.
C1_FailedForwardChangesNothing ==
  [][(Forward /\ last'.validated /\ ~last'.valid /\ ~last'.threw) =>
       /\ last'.ret = "false"
       /\ currentTab' = currentTab
       /\ display' = display
       /\ Visible' = Visible
       /\ submitCount' = submitCount
       /\ ~last'.submitted]_vars

C1_Witness ==
  /\ last.op = "next" /\ last.validated /\ ~last.valid /\ ~last.threw
  /\ currentTab = 1
  /\ Visible = {1}

\* C2: until the form is submitted exactly one tab is displayed, the one
\* at index currentTab (tab 0 initially).
C2_ExactlyCurrentVisible ==
  submitCount = 0 =>
    /\ Visible = {currentTab}
    /\ (last.op = "init" => currentTab = 0)

C2_Witness ==
  /\ submitCount = 0
  /\ last.op = "prev"
  /\ currentTab = 1
  /\ Visible = {1}
  /\ variant = "legacy"

\* C3: a forward move whose validation succeeds adds exactly 1 to
\* currentTab and displays that tab while the result is below stepCount;
\* from the last tab it submits the form and displays nothing.
C3_ForwardStepsThenSubmits ==
  [][(Forward /\ submitCount = 0 /\ last'.validated /\ last'.valid) =>
       /\ ~last'.threw
       /\ currentTab' = currentTab + 1
       /\ IF currentTab < stepCount - 1
          THEN /\ last'.shown = {currentTab + 1}
               /\ Visible' = {currentTab + 1}
               /\ ~last'.submitted
               /\ submitCount' = 0
          ELSE /\ last'.submitted
               /\ submitCount' = 1
               /\ last'.shown = {}]_vars

C3_Witness ==
  /\ submitCount = 1
  /\ last.op = "next" /\ last.submitted /\ last.shown = {}
  /\ stepCount >= 2
  /\ currentTab = stepCount

\* C4: until the form is submitted, 0 <= currentTab < stepCount.
C4_CurrentTabInRange ==
  submitCount = 0 => (0 <= currentTab /\ currentTab < stepCount)

C4_Witness ==
  /\ submitCount = 0
  /\ last.op = "prev"
  /\ currentTab = 0
  /\ stepCount >= 2

\* C5: in every wizard, validating a tab with an empty required non-radio
\* control fails and marks it invalid; once it is filled, validating again
\* removes the mark and succeeds if no control of the tab is left invalid.
C5_RequiredEmptyThenFilled ==
  [][(Forward /\ OnStep /\ last'.validated) =>
       \A i \in 1..Len(tabs[currentTab]) :
         LET f == tabs[currentTab][i]
         IN (f.required /\ f.kind /= "radio") =>
              /\ f.value = "" =>
                   (~last'.valid /\ tabs'[currentTab][i].invalid)
              /\ (f.invalid /\ Filled(f)) =>
                   /\ ~tabs'[currentTab][i].invalid
                   /\ NoneInvalidAfter(currentTab) => last'.valid]_vars

\* C6: in the student and teacher wizards, a tab whose only required
\* control is a radio group validates iff a member of the group is checked.
C6_RadioGroupIff ==
  [][(Forward /\ variant \in {"student", "teacher"} /\ OnStep
        /\ last'.validated /\ OnlyRadioRequired(currentTab)) =>
       (last'.valid <=>
          \E i \in 1..Len(tabs[currentTab]) :
            tabs[currentTab][i].kind = "radio"
            /\ tabs[currentTab][i].checked)]_vars

\* C7 as stated: in every wizard a tab whose required controls are all
\* filled validates, whatever its non-required controls hold.
C7_OptionalNeverFails_AllVariants ==
  [][(Forward /\ OnStep /\ last'.validated /\ AllRequiredFilled(currentTab))
       => (last'.valid /\ currentTab' = currentTab + 1)]_vars

\* C7 as amended: in the student and teacher wizards a tab whose required
\* controls are all filled validates, whatever its non-required controls
\* hold (the legacy wizard rejects every empty input element).
C7_OptionalNeverFails ==
  [][(Forward /\ variant \in {"student", "teacher"} /\ OnStep
        /\ last'.validated /\ AllRequiredFilled(currentTab))
       => (last'.valid /\ currentTab' = currentTab + 1)]_vars

C7_Witness ==
  /\ variant \in {"student", "teacher"}
  /\ last.op = "next" /\ last.validated /\ last.valid
  /\ currentTab >= 1
  /\ \E i \in 1..Len(tabs[currentTab - 1]) :
       ~tabs[currentTab - 1][i].required /\ tabs[currentTab - 1][i].value = ""

\* C8: a backward move from tab k > 0 runs no validation, whatever the
\* controls of tab k hold, sets currentTab to k - 1 and displays that tab.
C8_BackwardNeverGated ==
  [][(Backward /\ OnStep /\ currentTab > 0) =>
       /\ ~last'.validated
       /\ tabs' = tabs
       /\ currentTab' = currentTab - 1
       /\ last'.shown = {currentTab - 1}
       /\ display'[currentTab - 1] = "block"]_vars

C8_Witness ==
  /\ last.op = "prev" /\ ~last.threw
  /\ last.shown = {currentTab}
  /\ currentTab + 1 \in DOMAIN tabs
  /\ ~AllRequiredFilled(currentTab + 1)

\* C9: in every wizard a successful validation leaves the indicator entry
\* at currentTab finished, and a failed one changes no finished flag.
C9_FinishOnSuccessOnly ==
  [][(Forward /\ OnStep /\ last'.validated /\ ~last'.threw) =>
       /\ last'.valid => steps'[currentTab].finish
       /\ ~last'.valid =>
            \A k \in DOMAIN steps : steps'[k].finish = steps[k].finish]_vars

\* C10: a finished flag, once set, is never cleared by any later move.
C10_FinishMonotonic ==
  [][\A k \in DOMAIN steps : steps[k].finish => steps'[k].finish]_vars

C10_Witness ==
  /\ OnStep
  /\ steps[currentTab].finish
  /\ last.op = "next" /\ last.validated /\ ~last.valid

\* the indicator entries that carry the active class
ActiveSet == {k \in DOMAIN steps : steps[k].active > 0}

\* C11: after showTab(n), reached by any forward and backward moves, the
\* entry at n is the only active one; never are two entries active.
C11_ExactlyOneActive ==
  /\ Cardinality(ActiveSet) <= 1
  /\ \A k \in DOMAIN steps : steps[k].active <= 1
  /\ \A n \in last.shown : ~last.threw => ActiveSet = {n}

C11_Witness ==
  /\ last.op = "prev" /\ last.shown = {0}
  /\ ActiveSet = {0}
  /\ stepCount >= 2
  /\ steps[1].finish

\* C12: after showTab(n) the Previous button is hidden iff n = 0 and the
\* Next button reads "Submit" iff n = stepCount - 1, "Next" otherwise.
C12_NavButtons ==
  \A n \in last.shown :
    ~last.threw =>
      /\ prevBtn = "none" <=> n = 0
      /\ prevBtn = "inline" <=> n /= 0
      /\ nextBtn = "Submit" <=> n = stepCount - 1
      /\ nextBtn = "Next" <=> n /= stepCount - 1

C12_Witness ==
  /\ last.op = "next" /\ last.shown = {stepCount - 1}
  /\ stepCount >= 2
  /\ prevBtn = "inline" /\ nextBtn = "Submit"

\* three tabs, the first holding one required text input
ScenarioPage ==
  /\ stepCount = 3
  /\ Len(tabs[0]) = 1
  /\ tabs[0][1].kind = "text" /\ tabs[0][1].required

\* C14: on such a page a forward move with the input empty returns false
\* and stays on tab 0; with the input filled it moves to tab 1, shows the
\* Previous button and keeps the label "Next"; two more successful forward
\* moves reach tab 2 and then submit the form.
C14_Scenario ==
  [][(Forward /\ ScenarioPage /\ submitCount = 0) =>
       /\ (currentTab = 0 /\ tabs[0][1].value = "") =>
            (last'.ret = "false" /\ ~last'.valid /\ currentTab' = 0)
       /\ (currentTab = 0 /\ Filled(tabs[0][1])) =>
            /\ last'.valid /\ currentTab' = 1
            /\ prevBtn' = "inline" /\ nextBtn' = "Next"
       /\ (currentTab = 1 /\ last'.valid) =>
            (currentTab' = 2 /\ ~last'.submitted /\ submitCount' = 0)
       /\ (currentTab = 2 /\ last'.valid) =>
            (last'.submitted /\ submitCount' = 1)]_vars

C14_Witness ==
  /\ ScenarioPage
  /\ variant \in {"student", "teacher"}
  /\ Filled(tabs[0][1])
  /\ submitCount = 1
  /\ last.op = "next" /\ last.submitted
  /\ currentTab = 3

\* ------------------------------------------- fixStepIndicator on its own
\* any indicator: each entry with or without the active and finish classes
IndicatorInit ==
  \E v \in Variants : \E n \in 1..MaxSteps :
  \E st \in [0..(n - 1) -> [active : {0, 1}, finish : BOOLEAN]] :
    /\ variant = v
    /\ steps = st
    /\ tabs = << >> /\ display = << >> /\ currentTab = 0
    /\ prevBtn = "" /\ nextBtn = "" /\ submitCount = 0
    /\ last = Call("init", FALSE, FALSE, "undefined", {}, FALSE, FALSE)
    /\ NoSubjects /\ NoDob /\ NoAttendance

UpdateIndicator ==
  \E n \in DOMAIN steps :
    /\ steps' = fixStepIndicator(variant, n, steps).steps
    /\ last' = Call("fix", FALSE, FALSE, "undefined", {n}, FALSE, FALSE)
    /\ UNCHANGED << variant, tabs, display, currentTab, prevBtn, nextBtn,
                    submitCount, subjVars, dobVars, attVars >>

IndicatorNext == UpdateIndicator

SpecIndicator == IndicatorInit /\ [][IndicatorNext]_vars

\* C13: fixStepIndicator(n) applied to the result of fixStepIndicator(n)
\* leaves every entry's active and finish classes as they are.
C13_Idempotent ==
  last.op = "fix" =>
    \A n \in last.shown : fixStepIndicator(variant, n, steps).steps = steps

C13_Witness ==
  /\ last.op = "fix" /\ last.shown = {1}
  /\ ActiveSet = {1}
  /\ steps[0].finish /\ ~steps[1].finish

\* ===================================================== subject dropdowns
NumSubjects == 4

\* first_subject, second_subject, third_subject, fourth_subject
NumSelects == 4

SubjectNames ==
  << "Art", "Biology", "Chemistry", "Drama", "English", "French" >>

Subjects == {SubjectNames[i] : i \in 1..NumSubjects}

\* the option values of each dropdown: the subjects and the empty choice
Options == Subjects \cup {""}

\* "Get all currently selected subjects"
selectedSubjects(present, value) ==
  {value[i] : i \in {j \in present : value[j] /= ""}}

\* a variant that never disables an option
isDisabledNever(opt, cur, selected) == FALSE

\* a variant without the exception for the dropdown's own choice
isDisabledOwn(opt, cur, selected) == opt /= "" /\ opt \in selected

\* option.disabled as the inner loop sets it
isDisabled(opt, cur, selected) ==
  IF opt = "" \/ opt = cur THEN FALSE
  ELSE IF opt \in selected THEN TRUE
  ELSE FALSE

updateSubjectOptions(present, value, disabled) ==
  LET selected == selectedSubjects(present, value)
  IN [i \in 1..NumSelects |->
        IF i \in present
        THEN {o \in Options : isDisabled(o, value[i], selected)}
        ELSE disabled[i]]

NoDuplicate ==
  \A i \in subjPresent : \A j \in subjPresent :
    (i /= j /\ subjValue[i] /= "") => subjValue[i] /= subjValue[j]

\* setupSubjectValidation: the page as served, then "Run on page load"
SubjectInit ==
  \E present \in SUBSET (1..NumSelects) :
  \E value \in [1..NumSelects -> Options] :
    /\ \A i \in (1..NumSelects) \ present : value[i] = ""
    /\ subjPresent = present
    /\ subjValue = value
    /\ subjDisabled =
         updateSubjectOptions(present, value, [i \in 1..NumSelects |-> {}])
    /\ subjLast = [select |-> 0, from |-> "", to |-> "",
                   clean |-> \A i \in present : \A j \in present :
                               (i /= j /\ value[i] /= "") => value[i] /= value[j]]
    /\ NoWizard /\ NoDob /\ NoAttendance

\* the user picks an enabled option; the change listener runs
ChangeSubject ==
  \E i \in subjPresent : \E o \in Options :
    /\ o /= subjValue[i]
    /\ o \notin subjDisabled[i]
    /\ subjValue' = [subjValue EXCEPT ![i] = o]
    /\ subjDisabled' =
         updateSubjectOptions(subjPresent, subjValue', subjDisabled)
    /\ subjLast' = [subjLast EXCEPT !.select = i, !.from = subjValue[i],
                                    !.to = o]
    /\ UNCHANGED << subjPresent, wizVars, dobVars, attVars >>

SubjectNext == ChangeSubject

SpecSubjects == SubjectInit /\ [][SubjectNext]_vars

\* C15: on a page served without a subject chosen twice, picking enabled
\* options only never leaves two dropdowns with the same subject.
C15_NoSubjectTwice == subjLast.clean => NoDuplicate

C15_Witness ==
  /\ subjLast.clean
  /\ subjLast.select /= 0 /\ subjLast.to /= ""
  /\ subjPresent = 1..NumSelects
  /\ \A i \in subjPresent : subjValue[i] /= ""
  /\ \A i \in subjPresent : subjDisabled[i] /= {}

\* C20: after updateSubjectOptions an option is disabled iff it is a
\* subject other than the dropdown's own choice that another dropdown
\* holds; a subject given up by one dropdown is enabled in all the others.
C20_DisabledIff ==
  /\ \A i \in subjPresent : \A o \in Options :
       o \in subjDisabled[i] <=>
         /\ o /= ""
         /\ o /= subjValue[i]
         /\ \E j \in subjPresent \ {i} : subjValue[j] = o
  /\ (/\ subjLast.select /= 0
      /\ subjLast.from /= ""
      /\ \A j \in subjPresent : subjValue[j] /= subjLast.from)
     => \A j \in subjPresent : subjLast.from \notin subjDisabled[j]

C20_Witness ==
  /\ subjLast.select /= 0
  /\ subjLast.from /= "" /\ subjLast.to = ""
  /\ Cardinality(subjPresent) >= 3
  /\ \A j \in subjPresent : subjLast.from \notin subjDisabled[j]
  /\ \E j \in subjPresent : subjDisabled[j] /= {}

\* ================================================== date-of-birth check
\* dates are <<year, month, day>>; birth years lie this many years back
OldestYears == 19

YoungestYears == 15

isLeap(y) == (y % 4 = 0 /\ y % 100 /= 0) \/ y % 400 = 0

daysIn(y, m) ==
  IF m = 2 THEN (IF isLeap(y) THEN 29 ELSE 28)
  ELSE IF m \in {4, 6, 9, 11} THEN 30
  ELSE 31

prevDay(dt) ==
  IF dt[3] > 1 THEN << dt[1], dt[2], dt[3] - 1 >>
  ELSE IF dt[2] > 1 THEN << dt[1], dt[2] - 1, daysIn(dt[1], dt[2] - 1) >>
  ELSE << dt[1] - 1, 12, 31 >>

\* where the browser's clock is: at or east of UTC, or west of it
Zones == {"east", "west"}

\* new Date('YYYY-MM-DD') is midnight UTC; getFullYear, getMonth and
\* getDate read it in local time, which west of UTC is still the day before
localDate(dt, zone) == IF zone = "west" THEN prevDay(dt) ELSE dt

\* const validAges = { 12: {min: 16, max: 17}, 13: {min: 17, max: 18} }
validAges(yeargroup) ==
  IF yeargroup = "12" THEN [min |-> 16, max |-> 17]
  ELSE [min |-> 17, max |-> 18]

\* "Calculate age"
calcAge(today, dob) ==
  LET age == today[1] - dob[1]
      monthDiff == today[2] - dob[2]
  IN IF monthDiff < 0 \/ (monthDiff = 0 /\ today[3] < dob[3])
     THEN age - 1
     ELSE age

\* value is << >> for an empty field, year is "" when no radio is checked
\* (an Invalid Date gives a NaN age, which passes both comparisons)
validateDateOfBirth(today, zone, value, year) ==
  IF year = "" THEN [ret |-> TRUE, value |-> value]
  ELSE IF value = << >> THEN [ret |-> TRUE, value |-> value]
  ELSE LET age == calcAge(today, localDate(value, zone))
           allowedRange == validAges(year)
       IN IF age < allowedRange.min \/ age > allowedRange.max
          THEN [ret |-> FALSE, value |-> << >>]
          ELSE [ret |-> TRUE, value |-> value]

\* the days on which the page is opened
Todays ==
  { <<2026, 11, 1>>, <<2026, 3, 1>>, <<2027, 1, 1>>, <<2026, 12, 31>>,
    <<2028, 2, 29>> }

\* the dates the user may enter: around the birthday that falls today and
\* around the ends of the neighbouring months
DobDates(today) ==
  {dt \in ((today[1] - OldestYears)..(today[1] - YoungestYears))
            \X {((today[2] + 10) % 12) + 1, today[2], (today[2] % 12) + 1}
            \X {1, 2, 28, 29, 30, 31, today[3] - 1, today[3], today[3] + 1} :
     dt[3] >= 1 /\ dt[3] <= daysIn(dt[1], dt[2])}

DobInit ==
  \E today \in Todays : \E zone \in Zones :
    /\ dobToday = today
    /\ dobZone = zone
    /\ dobValue = << >>
    /\ dobYear = ""
    /\ dobLast = [op |-> "init", ret |-> TRUE, entered |-> << >>, year |-> ""]
    /\ NoWizard /\ NoSubjects /\ NoAttendance

\* dobInput.addEventListener('change', validateDateOfBirth)
ChangeDob ==
  \E dt \in DobDates(dobToday) \cup {<< >>} :
    LET r == validateDateOfBirth(dobToday, dobZone, dt, dobYear)
    IN /\ dt /= dobValue
       /\ dobValue' = r.value
       /\ dobLast' = [op |-> "dob", ret |-> r.ret, entered |-> dt,
                      year |-> dobYear]
       /\ UNCHANGED << dobToday, dobZone, dobYear, wizVars, subjVars,
                       attVars >>

\* yearInputs.forEach(input => input.addEventListener('change', ...))
ChangeYear ==
  \E y \in {"12", "13"} :
    LET r == validateDateOfBirth(dobToday, dobZone, dobValue, y)
    IN /\ y /= dobYear
       /\ dobYear' = y
       /\ dobValue' = r.value
       /\ dobLast' = [op |-> "year", ret |-> r.ret, entered |-> dobValue,
                      year |-> y]
       /\ UNCHANGED << dobToday, dobZone, wizVars, subjVars, attVars >>

DobNext == ChangeDob \/ ChangeYear

SpecDob == DobInit /\ [][DobNext]_vars

\* the age in completed years on the day today of someone born on born
AgeOn(today, born) ==
  IF today[2] < born[2] \/ (today[2] = born[2] /\ today[3] < born[3])
  THEN today[1] - born[1] - 1
  ELSE today[1] - born[1]

\* C16: with a date entered and Year 12 or 13 checked, the check returns
\* true exactly when the age in completed years today is 16 or 17 (Year
\* 12) or 17 or 18 (Year 13); otherwise it returns false and empties the
\* field.
C16_AgeRange ==
  (dobLast.op /= "init" /\ dobLast.entered /= << >> /\ dobLast.year /= "") =>
    LET age == AgeOn(dobToday, dobLast.entered)
        ok == IF dobLast.year = "12" THEN age \in {16, 17}
              ELSE age \in {17, 18}
    IN /\ dobLast.ret <=> ok
       /\ ~dobLast.ret => dobValue = << >>

\* ====================================================== attendance grid
NumRows == 2

Rows == 1..NumRows

\* data-status of the three buttons of a row
ButtonStatuses == {"Present", "Late", "Absent"}

Statuses == ButtonStatuses \cup {"Not Marked"}

countOf(status, st) == Cardinality({r \in DOMAIN status : status[r] = st})

updateMarkedCount(status) ==
  Cardinality(DOMAIN status) - countOf(status, "Not Marked")

\* a variant whose 'Late' case lacks its break
updateSummaryFallThrough(status) ==
  [present |-> countOf(status, "Present"),
   late |-> countOf(status, "Late"),
   absent |-> countOf(status, "Absent") + countOf(status, "Late"),
   unmarked |-> countOf(status, "Not Marked")]

updateSummary(status) ==
  [present |-> countOf(status, "Present"),
   late |-> countOf(status, "Late"),
   absent |-> countOf(status, "Absent"),
   unmarked |-> countOf(status, "Not Marked")]

\* updateMarkedCount(); updateSummary(); the total is written once on load
refreshCounts(counts, status) ==
  LET sm == updateSummary(status)
  IN [total |-> counts.total, marked |-> updateMarkedCount(status),
      present |-> sm.present, late |-> sm.late, absent |-> sm.absent,
      unmarked |-> sm.unmarked]

\* a variant that does not take the class off the other buttons
clickActiveKeep(active, st) == active \cup {st}

\* the active buttons of the row after a click on the button st
clickActive(active, st) == {st}

\* handleStatusButtonClick on the button st of row r
handleStatusButtonClick(state, r, st) ==
  LET status == [state.status EXCEPT ![r] = st]
  IN [status |-> status,
      active |-> [state.active EXCEPT ![r] = clickActive(@, st)],
      counts |-> refreshCounts(state.counts, status)]

\* markAllPresent: rows in document order, clicking where not yet active
RECURSIVE markAllFrom(_, _)
markAllFrom(state, r) ==
  IF r > Cardinality(DOMAIN state.status) THEN state
  ELSE markAllFrom(IF "Present" \in state.active[r] THEN state
                   ELSE handleStatusButtonClick(state, r, "Present"),
                   r + 1)

\* logAttendance: every failure is caught and turned into false, so the
\* promise is always fulfilled
logAttendance(outcome) ==
  [settled |-> "fulfilled", value |-> (outcome = "ok"),
   toast |-> IF outcome = "ok" THEN "(server message)"
             ELSE IF outcome = "error" THEN "Error: (server error)"
             ELSE "Network error while saving attendance"]

Outcomes == {"ok", "error", "network"}

\* the then-callback of Promise.all in saveAllAttendance
saveToast(allSaved) ==
  IF allSaved THEN "Attendance saved successfully!"
  ELSE "Some attendance records failed to save"

AttState == [status |-> attStatus, active |-> attActive, counts |-> attCounts]

\* initializeAttendance, updateSummary and loadExistingAttendance have run
AttendanceInit ==
  LET status == [r \in Rows |-> "Not Marked"]
  IN /\ attStatus = status
     /\ attActive = [r \in Rows |-> {}]
     /\ attCounts = refreshCounts([total |-> Cardinality(Rows)], status)
     /\ attLoad = Rows
     /\ attTimer = TRUE
     /\ attSave = [saving |-> FALSE, pending |-> {}, allSaved |-> TRUE,
                   failed |-> FALSE]
     /\ attToast = ""
     /\ attLast = [op |-> "init", row |-> 0, status |-> "",
                   clicked |-> FALSE]
     /\ NoWizard /\ NoSubjects /\ NoDob

ClickStatus ==
  \E r \in Rows : \E st \in ButtonStatuses :
    LET n == handleStatusButtonClick(AttState, r, st)
    IN /\ attStatus' = n.status
       /\ attActive' = n.active
       /\ attCounts' = n.counts
       /\ attLast' = [op |-> "click", row |-> r, status |-> st,
                      clicked |-> TRUE]
       /\ UNCHANGED << attLoad, attTimer, attSave, attToast, wizVars,
                       subjVars, dobVars >>

MarkAllPresent ==
  LET n == markAllFrom(AttState, 1)
  IN /\ attStatus' = n.status
     /\ attActive' = n.active
     /\ attCounts' = n.counts
     /\ attToast' = "All students marked as present"
     /\ attLast' = [op |-> "markAll", row |-> 0, status |-> "Present",
                    clicked |-> TRUE]
     /\ UNCHANGED << attLoad, attTimer, attSave, wizVars, subjVars,
                     dobVars >>

\* saveAllAttendance up to Promise.all; with nothing to save the
\* then-callback runs at once
SaveClick ==
  LET pending == {r \in Rows : attStatus[r] /= "Not Marked"}
  IN /\ ~attSave.saving
     /\ attSave' = [saving |-> pending /= {}, pending |-> pending,
                    allSaved |-> TRUE, failed |-> FALSE]
     /\ attToast' = IF pending = {} THEN saveToast(TRUE) ELSE attToast
     /\ attLast' = [op |-> IF pending = {} THEN "saved" ELSE "save",
                    row |-> 0, status |-> "", clicked |-> attLast.clicked]
     /\ UNCHANGED << attStatus, attActive, attCounts, attLoad, attTimer,
                     wizVars, subjVars, dobVars >>

\* one /log_attendance request of saveAllAttendance settles; after the
\* last one the then-callback of Promise.all runs
SaveResponse ==
  \E r \in attSave.pending : \E outcome \in Outcomes :
    LET p == logAttendance(outcome)
        allSaved == IF p.settled = "rejected" THEN FALSE
                    ELSE attSave.allSaved
        rest == attSave.pending \ {r}
    IN /\ attSave.saving
       /\ attSave' = [saving |-> rest /= {}, pending |-> rest,
                      allSaved |-> allSaved,
                      failed |-> (attSave.failed \/ outcome /= "ok")]
       /\ attToast' = IF rest = {} THEN saveToast(allSaved) ELSE p.toast
       /\ attLast' = [op |-> IF rest = {} THEN "saved" ELSE "response",
                      row |-> r, status |-> "", clicked |-> attLast.clicked]
       /\ UNCHANGED << attStatus, attActive, attCounts, attLoad, attTimer,
                       wizVars, subjVars, dobVars >>

\* the then-callback of getAttendanceStatus in loadExistingAttendance
LoadResponse ==
  \E r \in attLoad : \E st \in Statuses :
    /\ attLoad' = attLoad \ {r}
    /\ attStatus' = IF st /= "Not Marked" THEN [attStatus EXCEPT ![r] = st]
                    ELSE attStatus
    /\ attActive' = IF st /= "Not Marked"
                    THEN [attActive EXCEPT ![r] = ButtonStatuses \cap {st}]
                    ELSE attActive
    /\ attLast' = [op |-> "load", row |-> r, status |-> st,
                   clicked |-> attLast.clicked]
    /\ UNCHANGED << attCounts, attTimer, attSave, attToast, wizVars,
                    subjVars, dobVars >>

\* setTimeout(() => { updateMarkedCount(); updateSummary(); }, 500)
TimerFire ==
  /\ attTimer
  /\ attTimer' = FALSE
  /\ attCounts' = refreshCounts(attCounts, attStatus)
  /\ attLast' = [op |-> "timer", row |-> 0, status |-> "",
                 clicked |-> attLast.clicked]
  /\ UNCHANGED << attStatus, attActive, attLoad, attSave, attToast, wizVars,
                  subjVars, dobVars >>

AttendanceNext ==
  \/ ClickStatus
  \/ MarkAllPresent
  \/ SaveClick
  \/ SaveResponse
  \/ LoadResponse
  \/ TimerFire

SpecAttendance == AttendanceInit /\ [][AttendanceNext]_vars

\* C17: saveAllAttendance shows 'Attendance saved successfully!' only if
\* every request it issued succeeded, and 'Some attendance records failed
\* to save' if one of them failed.
C17_SaveToast ==
  attLast.op = "saved" =>
    /\ attToast = "Attendance saved successfully!" => ~attSave.failed
    /\ attSave.failed => attToast = "Some attendance records failed to save"

\* C18: every row has at most one active button, has one exactly when its
\* status display is not 'Not Marked', and then displays that button's
\* status; after mark-all-present every row displays 'Present'.
C18_ActiveMatchesDisplay ==
  /\ \A r \in Rows :
       /\ Cardinality(attActive[r]) <= 1
       /\ attActive[r] /= {} <=> attStatus[r] /= "Not Marked"
       /\ attActive[r] /= {} => attActive[r] = {attStatus[r]}
  /\ attLast.op = "markAll" => \A r \in Rows : attStatus[r] = "Present"

C18_Witness ==
  /\ attLast.op = "click" /\ attLast.status = "Late"
  /\ attToast = "All students marked as present"
  /\ attActive[attLast.row] = {"Late"}
  /\ \E r \in Rows : attStatus[r] = "Present"

\* C19: when a click handler has completed, the four summary counts are
\* the numbers of rows displaying each status, the marked count is the
\* number of rows not displaying 'Not Marked', and the four sum to the
\* total.
C19_CountsAfterClick ==
  attLast.op = "click" =>
    /\ attCounts.present = Cardinality({r \in Rows : attStatus[r] = "Present"})
    /\ attCounts.late = Cardinality({r \in Rows : attStatus[r] = "Late"})
    /\ attCounts.absent = Cardinality({r \in Rows : attStatus[r] = "Absent"})
    /\ attCounts.unmarked =
         Cardinality({r \in Rows : attStatus[r] = "Not Marked"})
    /\ attCounts.marked =
         Cardinality({r \in Rows : attStatus[r] /= "Not Marked"})
    /\ attCounts.present + attCounts.late + attCounts.absent
         + attCounts.unmarked = attCounts.total

C19_Witness ==
  /\ attLast.op = "click"
  /\ attCounts.late = 1 /\ attCounts.present = 1
  /\ attCounts.marked = 2

\* C21: in the student and teacher wizards the form is submitted at most
\* once: after a forward move has submitted it, no later nextPrev call
\* submits again or changes currentTab.
C21_SubmitOnce ==
  [][(variant \in {"student", "teacher"} /\ submitCount >= 1) =>
       (submitCount' = submitCount /\ currentTab' = currentTab)]_vars

\* C22: a status chosen by a click is not overwritten by a load response
\* arriving later.  While a row's response is outstanding only clicks can
\* have given it a status, so: a step that is not a click leaves the
\* display and active button of every such row as the click set them.
C22_ClickNotOverwritten ==
  [][(attLast'.op \notin {"click", "markAll"}) =>
       \A r \in attLoad :
         attStatus[r] /= "Not Marked" =>
           (attStatus'[r] = attStatus[r] /\ attActive'[r] = attActive[r])]_vars

\* C23: when every load response has been applied and the timer has
\* fired, in any order and with no click, the marked count and the four
\* summary counts are the numbers of rows displaying each status.
C23_CountsAfterLoad ==
  (attLoad = {} /\ ~attTimer /\ ~attLast.clicked) =>
    /\ attCounts.marked =
         Cardinality({r \in Rows : attStatus[r] /= "Not Marked"})
    /\ attCounts.present = Cardinality({r \in Rows : attStatus[r] = "Present"})
    /\ attCounts.late = Cardinality({r \in Rows : attStatus[r] = "Late"})
    /\ attCounts.absent = Cardinality({r \in Rows : attStatus[r] = "Absent"})
    /\ attCounts.unmarked =
         Cardinality({r \in Rows : attStatus[r] = "Not Marked"})

====
